---- MODULE Spec2Model ----
(***************************************************************************)
(* Wind-Constraint-Tracker: the acceptance fetcher (ingest_api.py), the    *)
(* asset classifier (ingest_static.py) and the energy/cost estimator       *)
(* (calculate_physics.py, and load_data plus the totals of dashboard.py).  *)
(*                                                                         *)
(* Times are whole hours, levels are integers.  A volume is kept doubled   *)
(* (vol2 = (levelFrom + levelTo) * duration_hours), so that the division   *)
(* by two of the trapezoidal formula never leaves the integers.            *)
(***************************************************************************)
EXTENDS Integers, Sequences, FiniteSets, TLC

VARIABLES
    \* ---- fetch_bid_offer_data (ingest_api.py)
    pc,          \* "idle" | "loop" | "post" | "done" | "crashed": position in the function
    period,      \* the loop variable of `for period in range(1, 49)`
    all_data,    \* the accumulator list
    requested,   \* history: the settlementPeriod of every requests.get issued, in order
    delivered,   \* history: what the periods read as a success delivered, in request order
    anyOk,       \* history: some period was read as a success
    anyFail,     \* history: some period failed
    result,      \* the DataFrame returned to the caller
    signal,      \* the terminal message printed
    writes,      \* history: number of df.to_csv calls of this run
    \* ---- the two files
    csv,         \* data/raw/raw_acceptances.csv
    ref,         \* data/static/BMUFuelType.xlsx
    \* ---- the estimator and the classifier
    op,          \* the operation that ran last
    out,         \* what it reported
    cache        \* the memo of st.cache_data around load_data

vars == <<pc, period, all_data, requested, delivered, anyOk, anyFail, result,
          signal, writes, csv, ref, op, out, cache>>

fetchVars == <<pc, period, all_data, requested, delivered, anyOk, anyFail,
               result, signal, writes>>

\* ---------------------------------------------------------------- bounds
\* At most MaxData records are accumulated in one modelled fetch.
MaxData == 2
\* At most MaxRows rows in the acceptance store of an estimator run.
MaxRows == 2
\* At most MaxRefRows rows in the reference table of a classifier run.
MaxRefRows == 2

\* ------------------------------------------------------- program constants
\* range(1, 49): the 48 settlement periods of a day
NumPeriods == 48
\* the flat price per MWh
PRICE_PER_MWH == 70
\* head(5) of the report of calculate_physics_impact
TOP_PHYSICS == 5
\* head(10) of the dashboard's chart
TOP_DASHBOARD == 10

\* The missing-value marker of pandas (float NaN); no identifier is spelled so.
NaN == "<NaN>"

Missing == [exists |-> FALSE]
File(rows) == [exists |-> TRUE, rows |-> rows]

\* ------------------------------------------------------------ the fetcher
\* The k-th record of the response for settlement period p.
ApiRecord(p, k) ==
    [bmUnitId |-> "T_TEST-1", settlementPeriod |-> p, n |-> k,
     timeFrom |-> 0, timeTo |-> 1, levelFrom |-> 100, levelTo |-> 50]

\* A body whose 'data' is a list of n records.
Payload(p, n) == [k \in 1..n |-> ApiRecord(p, k)]

\* Number of records a 200 response may carry in the model.
PayloadSizes == {0, 1, 2}

\* The name the upstream source gives the asset-identifier field.
ApiIdNames == {"bmUnit", "bmUnitId"}

EmptyFrame == [empty |-> TRUE, idCol |-> "", rows |-> <<>>]
Frame(idCol, rows) == [empty |-> rows = <<>>, idCol |-> idCol, rows |-> rows]

\* all_data.extend(data)
Extend(acc, data) == acc \o data

\* The loop head: `for period in range(1, 49)` has a next value.
InLoop == pc = "loop" /\ period <= NumPeriods

\* requests.get(...) is issued with settlementPeriod = period.
Request == requested' = Append(requested, period)

\* What every failing period does: print, fall out of the try, go on.
MutSkipAborts == /\ pc' = "post"
                 /\ period' = period
SkipPeriod == /\ pc' = "loop"
              /\ period' = period + 1

FailCommon ==
    /\ InLoop
    /\ Request
    /\ SkipPeriod
    /\ anyFail' = TRUE
    /\ UNCHANGED <<all_data, delivered, anyOk, result, signal, writes,
                   csv, ref, op, out, cache>>

\* r.status_code != 200: the else branch.
FetchBadStatus == FailCommon

\* requests.get raises (timeout, connection error): the except branch.
FetchException == FailCommon

\* r.json() raises (the body is no JSON), or the JSON is no object (.get raises
\* AttributeError), or 'data' is null or a number (extend raises TypeError).
FetchMalformed == FailCommon

\* Status 200 and a body whose 'data' list holds n records (n = 0 also when
\* the body has no 'data' key: .get('data', []) ).
FetchOk ==
    /\ InLoop
    /\ \E n \in PayloadSizes :
          /\ Len(all_data) + n <= MaxData
          /\ all_data' = Extend(all_data, Payload(period, n))
          /\ delivered' = delivered \o Payload(period, n)
    /\ Request
    /\ pc' = "loop"
    /\ period' = period + 1
    /\ anyOk' = TRUE
    /\ UNCHANGED <<anyFail, result, signal, writes, csv, ref, op, out, cache>>

\* The loop is exhausted.
LoopExit ==
    /\ pc = "loop"
    /\ period > NumPeriods
    /\ pc' = "post"
    /\ UNCHANGED <<period, all_data, requested, delivered, anyOk, anyFail,
                   result, signal, writes, csv, ref, op, out, cache>>

\* `if not all_data:` print the total-failure message, return pd.DataFrame().
MutReturnEmptySaves ==
    /\ pc = "post"
    /\ all_data = <<>>
    /\ result' = EmptyFrame
    /\ signal' = "TotalFailure"
    /\ csv' = File(<<>>)
    /\ writes' = writes + 1
    /\ pc' = "done"
    /\ UNCHANGED <<period, all_data, requested, delivered, anyOk, anyFail,
                   ref, op, out, cache>>
ReturnEmpty ==
    /\ pc = "post"
    /\ all_data = <<>>
    /\ result' = EmptyFrame
    /\ signal' = "TotalFailure"
    /\ pc' = "done"
    /\ UNCHANGED <<period, all_data, requested, delivered, anyOk, anyFail,
                   writes, csv, ref, op, out, cache>>

\* The rename of 'bmUnit' to 'bmUnitId'.
Rename(name) == IF name = "bmUnit" THEN "bmUnitId" ELSE name

\* df = pd.DataFrame(all_data); rename; df.to_csv(...); return df.
SaveAndReturn ==
    /\ pc = "post"
    /\ all_data # <<>>
    /\ \E name \in ApiIdNames :
          result' = Frame(Rename(name), all_data)
    /\ signal' = "Success"
    /\ csv' = File(all_data)
    /\ writes' = writes + 1
    /\ pc' = "done"
    /\ UNCHANGED <<period, all_data, requested, delivered, anyOk, anyFail,
                   ref, op, out, cache>>

\* df.to_csv raises (data/raw is absent or not writable): nothing is returned.
SaveFails ==
    /\ pc = "post"
    /\ all_data # <<>>
    /\ signal' = "Success"
    /\ pc' = "crashed"
    /\ UNCHANGED <<period, all_data, requested, delivered, anyOk, anyFail,
                   result, writes, csv, ref, op, out, cache>>

\* The content an earlier run may have left in the store.
EarlierContent == <<[bmUnitId |-> "T_TEST-1", timeFrom |-> 0, timeTo |-> 1,
                     levelFrom |-> 100, levelTo |-> 50]>>

NoFrame == [none |-> TRUE]
NoOut == [none |-> TRUE]
NoCache == [cached |-> FALSE]

FetchStart ==
    /\ pc = "loop"
    /\ period = 1
    /\ all_data = <<>>
    /\ requested = <<>>
    /\ delivered = <<>>
    /\ anyOk = FALSE
    /\ anyFail = FALSE
    /\ result = NoFrame
    /\ signal = ""
    /\ writes = 0

InitFetch ==
    /\ FetchStart
    /\ csv \in {Missing, File(EarlierContent)}
    /\ ref = Missing
    /\ op = "none"
    /\ out = NoOut
    /\ cache = NoCache

NextFetch ==
    \/ FetchBadStatus
    \/ FetchException
    \/ FetchMalformed
    \/ FetchOk
    \/ LoopExit
    \/ ReturnEmpty
    \/ SaveAndReturn
    \/ SaveFails

SpecFetch == InitFetch /\ [][NextFetch]_vars

\* ------------------------------------------------------------ the inputs
\* The asset identifiers of the modelled runs.
Ids == {"T_TEST-1", "T_WIND-2"}

\* (timeFrom, timeTo) in whole hours after T; pd.to_datetime turns the two
\* columns into instants, and only their difference is used afterwards.
TimePairs == {<<0, 1>>, <<1, 2>>, <<0, 12>>, <<1, 1>>, <<2, 1>>}

\* (levelFrom, levelTo)
LevelPairs == {<<100, 50>>, <<50, 50>>, <<700, 700>>}

Row(id, t, l) ==
    [bmUnitId |-> id, timeFrom |-> t[1], timeTo |-> t[2],
     levelFrom |-> l[1], levelTo |-> l[2]]

RecordPool == {Row(i, t, l) : i \in Ids, t \in TimePairs, l \in LevelPairs}

SeqsUpTo(S, n) == UNION {[1..k -> S] : k \in 0..n}

AllCsv == {Missing} \cup {File(rows) : rows \in SeqsUpTo(RecordPool, MaxRows)}

\* A header is a sequence of pieces; " " is a run of whitespace.
FuelHeaders == {<<"BMRS FUEL TYPE">>, <<" ", "BMRS FUEL TYPE", " ">>, <<"FUEL">>}

RefRow(fuel, neso, sett) == [fuel |-> fuel, neso |-> neso, sett |-> sett]

RefRowPool == {RefRow(f, a, b) : f \in {"WIND", "GAS"},
                                 a \in Ids \cup {NaN}, b \in Ids \cup {NaN}}

\* A workbook pd.read_excel cannot open.
Corrupt == [exists |-> TRUE, readable |-> FALSE]
Table(hdr, rows) ==
    [exists |-> TRUE, readable |-> TRUE, fuelHdr |-> hdr, rows |-> rows]

AllRefs == {Missing, Corrupt} \cup
           {Table(h, rows) : h \in FuelHeaders,
                             rows \in SeqsUpTo(RefRowPool, MaxRefRows)}

\* The reference tables of the estimator runs.
RefSamples ==
    {Missing, Corrupt,
     Table(<<"FUEL">>, <<RefRow("WIND", "T_TEST-1", NaN)>>),
     Table(<<"BMRS FUEL TYPE">>, <<RefRow("GAS", "T_TEST-1", "T_WIND-2")>>),
     Table(<<" ", "BMRS FUEL TYPE", " ">>, <<RefRow("WIND", NaN, "T_TEST-1")>>),
     Table(<<"BMRS FUEL TYPE">>, <<RefRow("WIND", "T_WIND-2", NaN)>>),
     Table(<<"BMRS FUEL TYPE">>, <<RefRow("WIND", "T_TEST-1", "T_WIND-2")>>)}

\* The acceptance stores of the classifier runs.
CsvSamples ==
    {Missing,
     File(<<>>),
     File(<<Row("T_TEST-1", <<0, 1>>, <<100, 50>>),
            Row("T_TEST-1", <<1, 2>>, <<50, 50>>)>>),
     File(<<Row("T_TEST-1", <<0, 1>>, <<50, 50>>),
            Row("T_WIND-2", <<0, 12>>, <<700, 700>>)>>),
     File(<<Row(NaN, <<0, 1>>, <<100, 50>>)>>)}

\* ------------------------------------------------- the shared arithmetic
Abs(x) == IF x < 0 THEN -x ELSE x

\* duration_hours = (timeTo - timeFrom).dt.total_seconds() / 3600
Duration(r) == r.timeTo - r.timeFrom

\* Twice mwh_volume = ((levelFrom + levelTo) / 2) * duration_hours.
MutVol2StartLevelOnly(r) == (r.levelFrom + r.levelFrom) * Duration(r)
Vol2(r) == (r.levelFrom + r.levelTo) * Duration(r)

\* The typed frame: the rows with duration_hours and mwh_volume added.
Enrich(rows) ==
    [i \in 1..Len(rows) |->
        [bmUnitId |-> rows[i].bmUnitId,
         timeFrom |-> rows[i].timeFrom, timeTo |-> rows[i].timeTo,
         levelFrom |-> rows[i].levelFrom, levelTo |-> rows[i].levelTo,
         duration_hours |-> Duration(rows[i]),
         mwh2 |-> Vol2(rows[i])]]

\* str(x) of an identifier cell: the missing marker becomes the text 'nan'.
StrOf(x) == IF x = NaN THEN "nan" ELSE x

\* df['bmUnitId'] = df['bmUnitId'].astype(str)
AsTypeStr(df) == [i \in 1..Len(df) |-> [df[i] EXCEPT !.bmUnitId = StrOf(@)]]

\* df[df['bmUnitId'].isin(ids)]
FilterIsin(df, ids) == SelectSeq(df, LAMBDA r : r.bmUnitId \in ids)

\* df['mwh_volume'].sum(), doubled
RECURSIVE SumVol2(_)
SumVol2(df) == IF df = <<>> THEN 0 ELSE df[1].mwh2 + SumVol2(Tail(df))

\* groupby('bmUnitId')['mwh_volume'].sum().abs(): one entry per identifier
\* (groupby leaves out the rows whose key is missing).
GroupAbs(df) ==
    {[bmUnitId |-> k,
      mwh2 |-> Abs(SumVol2(SelectSeq(df, LAMBDA r : r.bmUnitId = k)))] :
        k \in {df[i].bmUnitId : i \in 1..Len(df)} \ {NaN}}

\* ascending=False
Descending(t) == \A i \in 1..(Len(t) - 1) : t[i].mwh2 >= t[i + 1].mwh2

\* sort_values(ascending=False): every descending arrangement of the entries
\* (the order of equal values is the sort's choice).
SortValues(entries) ==
    {t \in [1..Cardinality(entries) -> entries] :
        /\ \A e \in entries : \E i \in DOMAIN t : t[i] = e
        /\ Descending(t)}

\* .head(n)
HeadN(t, n) == SubSeq(t, 1, IF Len(t) < n THEN Len(t) ELSE n)

\* ------------------------------------------------------- the classifier
RECURSIVE LStrip(_)
LStrip(h) == IF h # <<>> /\ Head(h) = " " THEN LStrip(Tail(h)) ELSE h

RECURSIVE RStrip(_)
RStrip(h) ==
    IF h # <<>> /\ h[Len(h)] = " " THEN RStrip(SubSeq(h, 1, Len(h) - 1)) ELSE h

\* c.strip()
Strip(h) == RStrip(LStrip(h))

\* pd.read_excel raises: the file is absent or cannot be opened.
ReadExcelRaises(r) == ~r.exists \/ ~r.readable

\* static['BMRS FUEL TYPE'] raises KeyError: no header strips to that name.
FuelKeyError(r) == Strip(r.fuelHdr) # <<"BMRS FUEL TYPE">>

\* The dictionary step raises.
DictRaises(r) == ReadExcelRaises(r) \/ FuelKeyError(r)

\* static[static['BMRS FUEL TYPE'] == 'WIND']
WindRows(r) == SelectSeq(r.rows, LAMBDA x : x.fuel = "WIND")

\* set(column.unique())
NesoUnique(rows) == {rows[i].neso : i \in 1..Len(rows)}
SettUnique(rows) == {rows[i].sett : i \in 1..Len(rows)}

\* .dropna()
DropNa(S) == S \ {NaN}

\* load_wind_ids: the first identifier column only.
WindIdsStatic(r) == NesoUnique(WindRows(r))

\* calculate_physics_impact: both columns, missing values dropped.
WindIdsPhysics(r) ==
    DropNa(NesoUnique(WindRows(r))) \cup DropNa(SettUnique(WindRows(r)))

\* load_data: both columns.
WindIdsDashboard(r) == NesoUnique(WindRows(r)) \cup SettUnique(WindRows(r))

\* load_wind_ids(): no try around the load.
LoadWindIds(r) ==
    IF ReadExcelRaises(r) THEN [kind |-> "crash", exc |-> "read_excel"]
    ELSE IF FuelKeyError(r) THEN [kind |-> "crash", exc |-> "KeyError"]
    ELSE [kind |-> "ids", wind_ids |-> WindIdsStatic(r)]

\* The try/except of calculate_physics_impact: any error gives set().
DictPhysics(r) == IF DictRaises(r) THEN {} ELSE WindIdsPhysics(r)

\* ------------------------------------ calculate_physics_impact, steps 4-6
\* Step 4: `if wind_ids:` filter on the stringified identifier, else all rows.
WindFilter(df, wind_ids) ==
    IF wind_ids # {} THEN FilterIsin(AsTypeStr(df), wind_ids) ELSE df

\* wind_df[wind_df['delta'] < 0] with delta = levelTo - levelFrom
RampDowns(wind_df) == SelectSeq(wind_df, LAMBDA r : r.levelTo - r.levelFrom < 0)

\* Step 5: the ramp-downs, or every wind row when there is none.
MutNoFallback(wind_df) == RampDowns(wind_df)
MutAllWindRows(wind_df) == wind_df
Interventions(wind_df) ==
    IF Len(RampDowns(wind_df)) = 0 THEN wind_df ELSE RampDowns(wind_df)

\* estimated_cost = intervention_mwh * 70 (doubled with the volume)
Cost2(total2) == total2 * PRICE_PER_MWH

\* Everything calculate_physics_impact prints, but for the order of the table.
Physics(c, r) ==
    IF ~c.exists THEN [kind |-> "nodata"]
    ELSE LET df == Enrich(c.rows)
             wind_ids == DictPhysics(r)
             wind_df == WindFilter(df, wind_ids)
             constraint_df == Interventions(wind_df)
             total2 == Abs(SumVol2(constraint_df))
         IN  [kind |-> "report",
              dict_error |-> DictRaises(r),
              wind_ids |-> wind_ids,
              wind_df |-> wind_df,
              constraint_df |-> constraint_df,
              total2 |-> total2,
              cost2 |-> Cost2(total2),
              groups |-> GroupAbs(constraint_df)]

\* --------------------------------------------------- dashboard.load_data
EmptyDataFrame == <<>>

\* The body of load_data: the frame returned and the message shown.
LoadData(c, r) ==
    IF ~c.exists THEN [df |-> EmptyDataFrame, msg |-> "FileNotFound"]
    ELSE IF ~r.exists
         THEN [df |-> Enrich(c.rows), msg |-> "DictionaryMissing"]
    ELSE IF DictRaises(r)
         THEN [df |-> EmptyDataFrame, msg |-> "CriticalError"]
    ELSE [df |-> FilterIsin(AsTypeStr(Enrich(c.rows)), WindIdsDashboard(r)),
          msg |-> "",
          wind_ids |-> WindIdsDashboard(r)]

\* @st.cache_data on a function without arguments: the first call's value is
\* kept and every later call returns it.
CachedLoadData(memo, c, r) == IF memo.cached THEN memo.value ELSE LoadData(c, r)

\* The main data section: `if not df.empty:` totals and chart, else the error.
Dashboard(ld) ==
    IF ld.df = <<>> THEN [kind |-> "nodata", msg |-> ld.msg]
    ELSE [kind |-> "report",
          msg |-> ld.msg,
          df |-> ld.df,
          total2 |-> Abs(SumVol2(ld.df)),
          cost2 |-> Cost2(Abs(SumVol2(ld.df))),
          active_units |->
              Cardinality({ld.df[i].bmUnitId : i \in 1..Len(ld.df)} \ {NaN}),
          groups |-> GroupAbs(ld.df)]

\* ------------------------------------------------------------ operations
Idle ==
    /\ pc = "idle"
    /\ period = 0
    /\ all_data = <<>>
    /\ requested = <<>>
    /\ delivered = <<>>
    /\ anyOk = FALSE
    /\ anyFail = FALSE
    /\ result = NoFrame
    /\ signal = ""
    /\ writes = 0

WithTable(rep, n) ==
    IF rep.kind # "report" THEN {rep}
    ELSE {[rep EXCEPT !.groups = HeadN(t, n)] : t \in SortValues(rep.groups)}

\* python src/calculate_physics.py
RunPhysics ==
    /\ pc = "idle"
    /\ out' \in WithTable(Physics(csv, ref), TOP_PHYSICS)
    /\ op' = "physics"
    /\ UNCHANGED <<fetchVars, csv, ref, cache>>

\* One run of the dashboard script: df = load_data(), then the main section.
RunDashboard ==
    /\ pc = "idle"
    /\ cache' = [cached |-> TRUE, value |-> CachedLoadData(cache, csv, ref)]
    /\ out' \in WithTable(Dashboard(CachedLoadData(cache, csv, ref)), TOP_DASHBOARD)
    /\ op' = "dashboard"
    /\ UNCHANGED <<fetchVars, csv, ref>>

\* python src/ingest_static.py
RunLoadWindIds ==
    /\ pc = "idle"
    /\ out' = LoadWindIds(ref)
    /\ op' = "wind_ids"
    /\ UNCHANGED <<fetchVars, csv, ref, cache>>

NextEst ==
    \/ RunPhysics
    \/ RunDashboard
    \/ RunLoadWindIds

\* Estimator runs: every acceptance store, a sample of reference tables.
InitEst ==
    /\ Idle
    /\ csv \in AllCsv
    /\ ref \in RefSamples
    /\ op = "none"
    /\ out = NoOut
    /\ cache = NoCache

SpecEst == InitEst /\ [][NextEst]_vars

\* Classifier runs: every reference table, a sample of acceptance stores.
InitRef ==
    /\ Idle
    /\ csv \in CsvSamples
    /\ ref \in AllRefs
    /\ op = "none"
    /\ out = NoOut
    /\ cache = NoCache

SpecRef == InitRef /\ [][NextEst]_vars

\* ---------------------------------------------------- the files change
\* The acceptance store is replaced, created or removed between two queries.
ChangeCsv ==
    /\ pc = "idle"
    /\ csv' \in CsvSamples \ {csv}
    /\ op' = "edit"
    /\ UNCHANGED <<fetchVars, ref, out, cache>>

\* The reference table is replaced, created or removed between two queries.
ChangeRef ==
    /\ pc = "idle"
    /\ ref' \in RefSamples \ {ref}
    /\ op' = "edit"
    /\ UNCHANGED <<fetchVars, csv, out, cache>>

InitFiles ==
    /\ Idle
    /\ csv \in CsvSamples
    /\ ref \in RefSamples
    /\ op = "none"
    /\ out = NoOut
    /\ cache = NoCache

NextFiles ==
    \/ RunPhysics
    \/ RunDashboard
    \/ ChangeCsv
    \/ ChangeRef

SpecFiles == InitFiles /\ [][NextFiles]_vars

\* ================================================================ claims
Returned == pc \in {"post", "done", "crashed"}

RunClass ==
    IF ~anyOk THEN "all_failed" ELSE IF anyFail THEN "partial" ELSE "complete"

\* C2: the outcome of a finished fetch tells its caller which kind of run it
\* was: the total-failure outcome (the empty frame, "Total Failure") is given
\* exactly when all 48 periods failed, and a run in which only some periods
\* failed is not given the outcome of a run in which none did.
C2_OutcomeTellsRunClass ==
    pc = "done" =>
        /\ (result.empty \/ signal = "TotalFailure") <=> RunClass = "all_failed"
        /\ RunClass = "partial" => signal # "Success"

\* The union the classifier is to build: the values, other than the missing
\* marker, that either identifier column holds in a WIND row.
BothColumns(r) ==
    {x \in (Ids \cup {NaN}) :
        /\ x # NaN
        /\ \E i \in 1..Len(r.rows) :
              /\ r.rows[i].fuel = "WIND"
              /\ (r.rows[i].neso = x \/ r.rows[i].sett = x)}

\* C3: for every reference table that loads, each classifier's identifier
\* set is the union of the non-missing values of both identifier columns
\* over the WIND rows.
C3_UnionOfBothColumns ==
    ~DictRaises(ref) =>
        /\ (op = "wind_ids" => out.wind_ids = BothColumns(ref))
        /\ (op = "physics" /\ out.kind = "report" =>
                out.wind_ids = BothColumns(ref))
        /\ (op = "dashboard" /\ csv.exists =>
                cache.value.wind_ids = BothColumns(ref))

\* C4: when the reference file cannot be loaded or has no fuel-type column,
\* the classifier neither crashes nor hands on a plain empty set, which is
\* what a loaded table without wind assets gives.
C4_LoadFailureIsReported ==
    DictRaises(ref) =>
        /\ (op = "wind_ids" => out.kind # "crash")
        /\ (op = "physics" /\ out.kind = "report" => out.wind_ids # {})
        /\ (op = "dashboard" /\ csv.exists => cache.value.msg # "")

\* The two rows of the end-to-end scenario, T = 0.
ScenarioRows ==
    <<Row("T_TEST-1", <<0, 1>>, <<100, 50>>),
      Row("T_TEST-1", <<1, 2>>, <<50, 50>>)>>

\* The scenario's input, with T_TEST-1 classified as wind by the table.
ScenarioInput ==
    /\ csv = File(ScenarioRows)
    /\ ~DictRaises(ref)
    /\ "T_TEST-1" \in BothColumns(ref)

\* A report of volume v MWh and v * 70 in cost for the one asset T_TEST-1.
ScenarioReport(v) ==
    /\ out.kind = "report"
    /\ out.total2 = 2 * v
    /\ out.cost2 = 2 * (v * 70)
    /\ out.groups = <<[bmUnitId |-> "T_TEST-1", mwh2 |-> 2 * v]>>

\* C5 as stated: on the scenario both estimators report 125 MWh and 8,750.
C5_ScenarioBothReport125 ==
    ScenarioInput /\ op \in {"physics", "dashboard"} => ScenarioReport(125)

\* C5 as amended: on the scenario the dashboard reports 75 + 50 = 125 MWh and
\* 8,750; calculate_physics_impact keeps the one turn-down row and reports
\* 75 MWh and 5,250.
C5_ScenarioPerEstimator ==
    ScenarioInput =>
        /\ (op = "dashboard" => ScenarioReport(125))
        /\ (op = "physics" => ScenarioReport(75))

C5_Witness ==
    /\ ScenarioInput
    /\ op = "physics"
    /\ out.kind = "report"
    /\ "T_TEST-1" \in out.wind_ids
    /\ Len(out.wind_df) = 2
    /\ Len(out.constraint_df) = 1

\* The rows of a frame that are turn-down instructions.
TurnDowns(df) == {i \in 1..Len(df) : df[i].levelTo < df[i].levelFrom}

\* C6: in calculate_physics_impact, when no wind row is a turn-down the
\* totals and the per-asset aggregate are those of all wind rows; the
\* intervention rows are always wind rows, and there is one whenever there
\* is a wind row.
C6_FallbackToAllWind ==
    op = "physics" /\ out.kind = "report" =>
        /\ TurnDowns(out.wind_df) = {} =>
              /\ out.constraint_df = out.wind_df
              /\ out.total2 = Abs(SumVol2(out.wind_df))
              /\ out.cost2 = Abs(SumVol2(out.wind_df)) * 70
              /\ {out.groups[i] : i \in 1..Len(out.groups)} = GroupAbs(out.wind_df)
        /\ \A i \in 1..Len(out.constraint_df) :
              \E j \in 1..Len(out.wind_df) : out.wind_df[j] = out.constraint_df[i]
        /\ out.wind_df # <<>> => out.constraint_df # <<>>

\* Two wind rows, neither a turn-down, reported with their whole volume.
C6_Witness ==
    /\ op = "physics"
    /\ out.kind = "report"
    /\ out.wind_ids # {}
    /\ Len(out.wind_df) = 2
    /\ TurnDowns(out.wind_df) = {}
    /\ out.total2 > 0
    /\ Len(out.groups) = 2

\* The aggregates of a report: the totals and the per-asset table.
Aggregates(o) ==
    IF o.kind = "report"
    THEN [kind |-> "report", total2 |-> o.total2, cost2 |-> o.cost2,
          groups |-> o.groups]
    ELSE [kind |-> o.kind]

\* C7: the aggregates of every query are those of a fresh computation over
\* the two files as they are at the moment of the query.
C7_QueryIsFresh ==
    /\ op = "physics" =>
          \E o \in WithTable(Physics(csv, ref), TOP_PHYSICS) :
              Aggregates(out) = Aggregates(o)
    /\ op = "dashboard" =>
          \E o \in WithTable(Dashboard(LoadData(csv, ref)), TOP_DASHBOARD) :
              Aggregates(out) = Aggregates(o)

\* The rows an estimator summed.
Summed == IF op = "physics" THEN out.constraint_df ELSE out.df

\* C8: every row that enters a volume sum has a positive duration (the code
\* has no flag for a row, so an examined row is one that was dropped).
C8_NoNonPositiveDurationSummed ==
    op \in {"physics", "dashboard"} /\ out.kind = "report" =>
        \A i \in 1..Len(Summed) : Summed[i].timeTo > Summed[i].timeFrom

\* The table gives no wind identifier: it is absent, fails to load, or holds
\* no identifier in a WIND row.
NoWindIds(r) == DictRaises(r) \/ BothColumns(r) = {}

\* C9: with an empty wind-identifier set both estimators go on with all the
\* acceptance records.
C9_EmptyWindSetKeepsAll ==
    csv.exists /\ NoWindIds(ref) =>
        /\ (op = "physics" => out.wind_df = Enrich(csv.rows))
        /\ (op = "dashboard" => cache.value.df = Enrich(csv.rows))

\* The doubled volume of the rows of asset k, from the rows' own fields.
RECURSIVE AssetVol2(_, _)
AssetVol2(df, k) ==
    IF df = <<>> THEN 0
    ELSE (IF df[1].bmUnitId = k
          THEN (df[1].levelFrom + df[1].levelTo) * (df[1].timeTo - df[1].timeFrom)
          ELSE 0) + AssetVol2(Tail(df), k)

RECURSIVE AllVol2(_)
AllVol2(df) ==
    IF df = <<>> THEN 0
    ELSE (df[1].levelFrom + df[1].levelTo) * (df[1].timeTo - df[1].timeFrom)
         + AllVol2(Tail(df))

\* C10: each asset's aggregate is the absolute value of the sum over its
\* surviving rows of ((levelFrom + levelTo) / 2) * duration, the table lists
\* every asset once in non-increasing order of it, and the cost is the
\* absolute value of the sum over all surviving rows, times 70.
C10_AggregateFormula ==
    op \in {"physics", "dashboard"} /\ out.kind = "report" =>
        /\ \A i \in 1..Len(out.groups) :
              out.groups[i].mwh2 = Abs(AssetVol2(Summed, out.groups[i].bmUnitId))
        /\ {out.groups[i].bmUnitId : i \in 1..Len(out.groups)}
              = {Summed[i].bmUnitId : i \in 1..Len(Summed)} \ {NaN}
        /\ \A i, j \in 1..Len(out.groups) :
              i < j => /\ out.groups[i].mwh2 >= out.groups[j].mwh2
                       /\ out.groups[i].bmUnitId # out.groups[j].bmUnitId
        /\ out.total2 = Abs(AllVol2(Summed))
        /\ out.cost2 = Abs(AllVol2(Summed)) * 70

\* 700 and 700 over 12 h give 8,400, and 8,400 thousandths of a MWh cost 588;
\* the asset is listed before one whose rows sum to a negative volume.
C10_Witness ==
    /\ op = "physics"
    /\ out.kind = "report"
    /\ Len(out.groups) = 2
    /\ out.groups[1].mwh2 = 2 * 8400
    /\ Cost2(out.groups[1].mwh2) = 2 * (588 * 1000)
    /\ AssetVol2(Summed, out.groups[1].bmUnitId) > 0
    /\ AssetVol2(Summed, out.groups[2].bmUnitId) < 0
    /\ out.groups[2].mwh2 > 0
    /\ out.cost2 = (out.groups[1].mwh2 - out.groups[2].mwh2) * 70

\* C11: the wind-identifier set of each classifier never holds the
\* missing-value marker, and no acceptance row whose identifier is missing
\* is kept as a wind row.
C11_NoMissingMarkerInWindIds ==
    ~DictRaises(ref) =>
        /\ (op = "wind_ids" => NaN \notin out.wind_ids)
        /\ (op = "physics" /\ out.kind = "report" =>
                /\ NaN \notin out.wind_ids
                /\ out.wind_ids # {} =>
                      \A i \in 1..Len(csv.rows) :
                          csv.rows[i].bmUnitId = NaN =>
                              \A j \in 1..Len(out.wind_df) :
                                  out.wind_df[j].bmUnitId # "nan")
        /\ (op = "dashboard" /\ csv.exists =>
                /\ NaN \notin cache.value.wind_ids
                /\ \A j \in 1..Len(cache.value.df) :
                      cache.value.df[j].bmUnitId \notin {NaN, "nan"})

\* C12: a run of fetch_bid_offer_data writes the store at most once and only
\* after the 48-period loop, with the accumulated records; a run whose
\* accumulator is empty returns the empty frame and never changes the store,
\* so the content an earlier run left is still there when it has returned.
C12_StoreWrittenOnceAfterLoop ==
    /\ [](writes <= 1 /\ (pc = "loop" => writes = 0))
    /\ [][/\ csv' # csv =>
                /\ pc = "post" /\ pc' = "done"
                /\ Len(requested) = NumPeriods
                /\ all_data # <<>>
                /\ csv' = File(all_data)
                /\ writes = 0 /\ writes' = 1
          /\ writes' # writes => csv' = File(all_data)
          /\ pc = "post" /\ all_data = <<>> =>
                /\ pc' = "done"
                /\ result' = EmptyFrame
                /\ csv' = csv
                /\ writes' = writes]_vars

\* A finished run in which periods succeeded without a record: the empty
\* frame is returned and the earlier run's content is still in the store.
C12_Witness ==
    /\ pc = "done"
    /\ anyOk
    /\ all_data = <<>>
    /\ result = EmptyFrame
    /\ writes = 0
    /\ csv = File(EarlierContent)

====
